---- MODULE Spec2Model ----
(***************************************************************************)
(* Model of the coordinate-system algebra of chrono/core/ChCoordsys.h and  *)
(* of the disc-terrain contact query of                                    *)
(* chrono_vehicle/wheeled_vehicle/ChTire.cpp.                              *)
(*                                                                         *)
(* The template parameter Real is modelled exactly: a Real is a triple     *)
(* <<a, b, d>> standing for (a + b*sqrt(2)) / d, with d > 0 and            *)
(* gcd(a, b, d) = 1, so equal reals are equal triples.  The inputs are     *)
(* drawn from sets on which every square root the code takes stays in      *)
(* this field, except the divisor s of the triad constructor, which is     *)
(* carried as s^2 (see ChCoordsysTriad).                                   *)
(***************************************************************************)
EXTENDS Integers, Sequences, FiniteSets, TLC

\* ------------------------------------------------------------------------
\* Bounds of the checked input sets
\* ------------------------------------------------------------------------
\* how many of the orientations of QuatList the poses range over
NumQuat == 4
\* how many of the positions of PosList the poses and points range over
NumPos == 2
\* the triad points lie within this many units of the origin along each axis
MaxCoord == 1
\* the disc centres lie at heights -1/2, 0, 1/2, ..., MaxCenterZ2/2
MaxCenterZ2 == 6
\* the diagonal entries a pivot is chosen on are the multiples of 1/DiagDen in [-1, 1]
DiagDen == 2
\* Cycle is called with the step counts -MaxCycle..MaxCycle and the ends of int
MaxCycle == 4
\* how many times Cycle is called on one pose
MaxCalls == 2

\* ------------------------------------------------------------------------
\* Real: exact arithmetic in Q(sqrt 2)
\* ------------------------------------------------------------------------
Abs(n) == IF n < 0 THEN -n ELSE n

Sgn(n) == IF n < 0 THEN -1 ELSE IF n > 0 THEN 1 ELSE 0

RECURSIVE GCD(_, _)
GCD(m, n) == IF n = 0 THEN m ELSE GCD(n, m % n)

\* a, b, d divided by k
Reduce(a, b, d, k) == <<a \div k, b \div k, d \div k>>

\* the canonical triple of (a + b*sqrt(2)) / d, d # 0
Norm(a, b, d) ==
    Reduce(a, b, d, IF d < 0 THEN -GCD(GCD(Abs(a), Abs(b)), Abs(d))
                    ELSE GCD(GCD(Abs(a), Abs(b)), Abs(d)))

\* the integer n, and the fraction n/d, as a Real
Q(n) == <<n, 0, 1>>

Frac(n, d) == Norm(n, 0, d)

\* sqrt(2)/2
HalfSqrt2 == <<0, 1, 2>>

\* x*p + y*q over the denominator d
RAddOver(x, y, p, q, d) == Norm(x[1] * p + y[1] * q, x[2] * p + y[2] * q, d)

\* x + y over the least common denominator, g being the gcd of the two
RAddBy(x, y, g) == RAddOver(x, y, y[3] \div g, x[3] \div g, x[3] * (y[3] \div g))

RAdd(x, y) == RAddBy(x, y, GCD(x[3], y[3]))

RNeg(x) == <<-x[1], -x[2], x[3]>>

RSub(x, y) == RAdd(x, RNeg(y))

\* (a + b*sqrt(2)) * (c + e*sqrt(2)) / d
RMulOver(a, b, c, e, d) == Norm(a * c + 2 * b * e, a * e + b * c, d)

\* x * y, the factor g common to x's numerator and y's denominator, and the
\* factor h common to y's numerator and x's denominator, cancelled first
RMulBy(x, y, g, h) ==
    RMulOver(x[1] \div g, x[2] \div g, y[1] \div h, y[2] \div h,
             (x[3] \div h) * (y[3] \div g))

RMul(x, y) ==
    RMulBy(x, y, GCD(GCD(Abs(x[1]), Abs(x[2])), y[3]), GCD(GCD(Abs(y[1]), Abs(y[2])), x[3]))

\* x / y for y # 0, by the conjugate a - b*sqrt(2) of the divisor
RDiv(x, y) ==
    RMul(x, Norm(y[3] * y[1], -(y[3] * y[2]), y[1] * y[1] - 2 * y[2] * y[2]))

\* the sign of a + b*sqrt(2): a^2 and 2*b^2 are never equal unless both are 0
SignOf(a, b) ==
    IF b = 0 THEN Sgn(a)
    ELSE IF a = 0 THEN Sgn(b)
    ELSE IF Sgn(a) = Sgn(b) THEN Sgn(a)
    ELSE IF a * a > 2 * b * b THEN Sgn(a) ELSE Sgn(b)

RSign(x) == SignOf(x[1], x[2])

\* the sign of x - y, from the numerator of the difference alone
RCmp(x, y) == SignOf(x[1] * y[3] - y[1] * x[3], x[2] * y[3] - y[2] * x[3])

RLt(x, y) == RCmp(x, y) < 0

RLeq(x, y) == RCmp(x, y) <= 0

RGt(x, y) == RCmp(x, y) > 0

RGeq(x, y) == RCmp(x, y) >= 0

\* floor of the square root of a natural number, by bisection on lo..hi
RECURSIVE ISqrtIn(_, _, _)
ISqrtIn(n, lo, hi) ==
    IF lo >= hi THEN lo
    ELSE IF (lo + hi + 1) \div 2 <= n \div ((lo + hi + 1) \div 2)
         THEN ISqrtIn(n, (lo + hi + 1) \div 2, hi)
         ELSE ISqrtIn(n, lo, (lo + hi + 1) \div 2 - 1)

ISqrt(n) == ISqrtIn(n, 0, n)

IsRoot(r, n) == r * r = n

IsSquare(n) == n >= 0 /\ IsRoot(ISqrt(n), n)

\* a rational x >= 0 has its square root in the field iff x or x/2 or 2x is
\* the square of a rational
HasSqrt(x) ==
    /\ x[2] = 0
    /\ x[1] >= 0
    /\ \/ IsSquare(x[1]) /\ IsSquare(x[3])
       \/ x[1] % 2 = 0 /\ IsSquare(x[1] \div 2) /\ IsSquare(x[3])
       \/ x[3] % 2 = 0 /\ IsSquare(x[1]) /\ IsSquare(x[3] \div 2)

\* sqrt(x), for x with HasSqrt(x)
Sqrt(x) ==
    IF IsSquare(x[1]) /\ IsSquare(x[3]) THEN Norm(ISqrt(x[1]), 0, ISqrt(x[3]))
    ELSE IF x[1] % 2 = 0 /\ IsSquare(x[1] \div 2) /\ IsSquare(x[3])
         THEN Norm(0, ISqrt(x[1] \div 2), ISqrt(x[3]))
    ELSE Norm(0, ISqrt(x[1]), 2 * ISqrt(x[3] \div 2))

\* ------------------------------------------------------------------------
\* ChVector<Real>: <<x, y, z>>
\* ------------------------------------------------------------------------
ChVector(x, y, z) == <<Q(x), Q(y), Q(z)>>

VNULL == ChVector(0, 0, 0)

VAdd(a, b) == <<RAdd(a[1], b[1]), RAdd(a[2], b[2]), RAdd(a[3], b[3])>>

VSub(a, b) == <<RSub(a[1], b[1]), RSub(a[2], b[2]), RSub(a[3], b[3])>>

VNeg(a) == <<RNeg(a[1]), RNeg(a[2]), RNeg(a[3])>>

VScale(a, s) == <<RMul(a[1], s), RMul(a[2], s), RMul(a[3], s)>>

Vdot(a, b) == RAdd(RAdd(RMul(a[1], b[1]), RMul(a[2], b[2])), RMul(a[3], b[3]))

Vcross(a, b) ==
    << RSub(RMul(a[2], b[3]), RMul(a[3], b[2])),
       RSub(RMul(a[3], b[1]), RMul(a[1], b[3])),
       RSub(RMul(a[1], b[2]), RMul(a[2], b[1])) >>

Length2(a) == Vdot(a, a)

\* a / |a|, for a # 0 with |a| in the field
Normalize(a) == VScale(a, RDiv(Q(1), Sqrt(Length2(a))))

\* ------------------------------------------------------------------------
\* ChQuaternion<Real>: <<e0, e1, e2, e3>>
\* ------------------------------------------------------------------------
ChQuaternion(e0, e1, e2, e3) == <<Q(e0), Q(e1), Q(e2), Q(e3)>>

QUNIT == ChQuaternion(1, 0, 0, 0)

\* the Hamilton product a * b (operator* and operator%)
QMul(a, b) ==
    << RSub(RSub(RSub(RMul(a[1], b[1]), RMul(a[2], b[2])), RMul(a[3], b[3])), RMul(a[4], b[4])),
       RAdd(RSub(RAdd(RMul(a[1], b[2]), RMul(a[2], b[1])), RMul(a[4], b[3])), RMul(a[3], b[4])),
       RSub(RAdd(RAdd(RMul(a[1], b[3]), RMul(a[3], b[1])), RMul(a[4], b[2])), RMul(a[2], b[4])),
       RAdd(RSub(RAdd(RMul(a[1], b[4]), RMul(a[4], b[1])), RMul(a[3], b[2])), RMul(a[2], b[3])) >>

\* a >> b of two quaternions: the rotation a followed by b
QShr(a, b) == QMul(b, a)

GetConjugate(q) == <<q[1], RNeg(q[2]), RNeg(q[3]), RNeg(q[4])>>

QLength2(q) ==
    RAdd(RAdd(RMul(q[1], q[1]), RMul(q[2], q[2])), RAdd(RMul(q[3], q[3]), RMul(q[4], q[4])))

Two(x) == RAdd(x, x)

\* the products e0e0, e1e1, e2e2, e3e3, e0e1, e0e2, e0e3, e1e2, e1e3, e2e3
Products(q) ==
    << RMul(q[1], q[1]), RMul(q[2], q[2]), RMul(q[3], q[3]), RMul(q[4], q[4]),
       RMul(q[1], q[2]), RMul(q[1], q[3]), RMul(q[1], q[4]),
       RMul(q[2], q[3]), RMul(q[2], q[4]), RMul(q[3], q[4]) >>

\* the rotation matrix of a quaternion with the products p, rows first
RotMatrix(p) ==
    << << RSub(RSub(RAdd(p[1], p[2]), p[3]), p[4]),
          Two(RSub(p[8], p[7])),
          Two(RAdd(p[9], p[6])) >>,
       << Two(RAdd(p[8], p[7])),
          RSub(RAdd(RSub(p[1], p[2]), p[3]), p[4]),
          Two(RSub(p[10], p[5])) >>,
       << Two(RSub(p[9], p[6])),
          Two(RAdd(p[10], p[5])),
          RAdd(RSub(RSub(p[1], p[2]), p[3]), p[4]) >> >>

\* the matrix A applied to v, and its transpose applied to v
MatVec(A, v) ==
    << RAdd(RAdd(RMul(A[1][1], v[1]), RMul(A[1][2], v[2])), RMul(A[1][3], v[3])),
       RAdd(RAdd(RMul(A[2][1], v[1]), RMul(A[2][2], v[2])), RMul(A[2][3], v[3])),
       RAdd(RAdd(RMul(A[3][1], v[1]), RMul(A[3][2], v[2])), RMul(A[3][3], v[3])) >>

MatTVec(A, v) ==
    << RAdd(RAdd(RMul(A[1][1], v[1]), RMul(A[2][1], v[2])), RMul(A[3][1], v[3])),
       RAdd(RAdd(RMul(A[1][2], v[1]), RMul(A[2][2], v[2])), RMul(A[3][2], v[3])),
       RAdd(RAdd(RMul(A[1][3], v[1]), RMul(A[2][3], v[2])), RMul(A[3][3], v[3])) >>

\* q * [0, v] * q', written out as the rotation matrix of q applied to v
Rotate(q, v) == MatVec(RotMatrix(Products(q)), v)

\* q' * [0, v] * q, written out as the transposed rotation matrix applied to v
RotateBack(q, v) == MatTVec(RotMatrix(Products(q)), v)

\* ------------------------------------------------------------------------
\* ChCoordsys<Real>: [pos, rot]
\* ------------------------------------------------------------------------
ChCoordsys(mv, mq) == [pos |-> mv, rot |-> mq]

\* a slip in the default constructor: the null frame CSYSNULL for the identity
CSYSNORM_null == ChCoordsys(VNULL, <<Q(0), Q(0), Q(0), Q(0)>>)

\* the default constructor: the identity frame
CSYSNORM == ChCoordsys(VNULL, QUNIT)

\* TransformLocalToParent(const ChVector& local): parent = origin + q*[0,local]*q'
TransformLocalToParentV(cs, local) == VAdd(cs.pos, Rotate(cs.rot, local))

TransformPointLocalToParent(cs, local) == VAdd(cs.pos, Rotate(cs.rot, local))

\* a slip in the inverse point mapping: rotating forward instead of back
TransformParentToLocalV_forward(cs, parent) == Rotate(cs.rot, VSub(parent, cs.pos))

\* TransformParentToLocal(const ChVector& parent): local = q'*[0,parent-origin]*q
TransformParentToLocalV(cs, parent) == RotateBack(cs.rot, VSub(parent, cs.pos))

TransformPointParentToLocal(cs, parent) == RotateBack(cs.rot, VSub(parent, cs.pos))

\* a slip in the composition: the orientations multiplied in the other order
TransformLocalToParent_swapped(cs, local) ==
    ChCoordsys(TransformLocalToParentV(cs, local.pos), QMul(local.rot, cs.rot))

\* a slip in the composition: the local position added without rotating it
TransformLocalToParent_unrotated(cs, local) ==
    ChCoordsys(VAdd(cs.pos, local.pos), QMul(cs.rot, local.rot))

\* TransformLocalToParent(const ChCoordsys& local)
TransformLocalToParent(cs, local) ==
    ChCoordsys(TransformLocalToParentV(cs, local.pos), QMul(cs.rot, local.rot))

\* TransformParentToLocal(const ChCoordsys& parent)
TransformParentToLocal(cs, parent) ==
    ChCoordsys(TransformParentToLocalV(cs, parent.pos),
               QMul(GetConjugate(cs.rot), parent.rot))

\* operator*(const ChCoordsys& Fb): this * Fb
OpMul(Fa, Fb) == TransformLocalToParent(Fa, Fb)

\* a slip in '>>': the operands composed in the order of '*'
OpShr_sameorder(Fa, Fb) == TransformLocalToParent(Fa, Fb)

\* operator>>(const ChCoordsys& Fb): this >> Fb
OpShr(Fa, Fb) == TransformLocalToParent(Fb, Fa)

\* operator*(const ChCoordsys& Fa, const ChVector& Fb): Fa * v
OpMulVec(Fa, v) == TransformPointLocalToParent(Fa, v)

\* operator/(const ChVector& V): this / V
OpDiv(Fa, v) == TransformParentToLocalV(Fa, v)

\* operator>>(const ChVector& Fa, const ChCoordsys& Fb): v >> Fb
OpVecShr(v, Fb) == TransformPointLocalToParent(Fb, v)

\* operator*(const ChCoordsys& Fa, const ChQuaternion& Fb): Fa * q
OpMulQuat(Fa, q) == QMul(Fa.rot, q)

\* operator*(const ChQuaternion& Fa, const ChCoordsys& Fb): q * Fb
OpQuatMul(q, Fb) == ChCoordsys(Rotate(q, Fb.pos), QMul(q, Fb.rot))

\* operator>>(const ChQuaternion& Fa, const ChCoordsys& Fb): q >> Fb
OpQuatShr(q, Fb) == QShr(q, Fb.rot)

\* operator*(const ChVector& Fa, const ChCoordsys& Fb): v * Fb, a copy of Fb
\* with res.pos += Fa
OpVecMul(v, Fb) == ChCoordsys(VAdd(Fb.pos, v), Fb.rot)

\* operator>>(const ChCoordsys& Fa, const ChVector& Fb): Fa >> v, a copy of Fa
\* with res.pos += Fb
OpShrVec(Fa, v) == ChCoordsys(VAdd(Fa.pos, v), Fa.rot)

\* a slip in Fa >> q: the orientation multiplied by q on the right
OpShrQuat_postmultiplied(Fa, q) == ChCoordsys(Rotate(q, Fa.pos), QMul(Fa.rot, q))

\* operator>>(const ChCoordsys& Fa, const ChQuaternion& Fb): Fa >> q
OpShrQuat(Fa, q) == ChCoordsys(Rotate(q, Fa.pos), QShr(Fa.rot, q))

\* Objects that a call reaches by reference: mem maps the names of the objects
\* to their values, and the parameters this and T of a call are names, so that
\* each assignment of the body reads the values the ones before it left.
Mem(A, T) == [A |-> A, T |-> T]

\* this->pos = T.TransformLocalToParent(this->pos)
PrePos(mem, this, T) ==
    [mem EXCEPT ![this].pos = TransformLocalToParentV(mem[T], mem[this].pos)]

\* this->rot = T.rot * this->rot
PreRot(mem, this, T) == [mem EXCEPT ![this].rot = QMul(mem[T].rot, mem[this].rot)]

\* ConcatenatePreTransformation(const ChCoordsys& T)
ConcatenatePreTransformation(mem, this, T) == PreRot(PrePos(mem, this, T), this, T)

\* this->pos = this->TransformLocalToParent(T.pos)
PostPos(mem, this, T) ==
    [mem EXCEPT ![this].pos = TransformLocalToParentV(mem[this], mem[T].pos)]

\* this->rot = this->rot * T.rot
PostRot(mem, this, T) == [mem EXCEPT ![this].rot = QMul(mem[this].rot, mem[T].rot)]

\* a slip in the post-concatenation: rot assigned before pos is computed from it
ConcatenatePostTransformation_rotfirst(mem, this, T) ==
    PostPos(PostRot(mem, this, T), this, T)

\* ConcatenatePostTransformation(const ChCoordsys& T)
ConcatenatePostTransformation(mem, this, T) == PostRot(PostPos(mem, this, T), this, T)

\* this->pos = R.Rotate(this->pos), R being the orientation of the object R
ShrQuatPos(mem, this, R) == [mem EXCEPT ![this].pos = Rotate(mem[R].rot, mem[this].pos)]

\* this->rot = R * this->rot
ShrQuatRot(mem, this, R) == [mem EXCEPT ![this].rot = QMul(mem[R].rot, mem[this].rot)]

\* a slip in the rotation in place: rot assigned before pos is rotated
OpShrAssignQuat_rotfirst(mem, this, R) == ShrQuatPos(ShrQuatRot(mem, this, R), this, R)

\* operator>>=(const ChQuaternion& R)
OpShrAssignQuat(mem, this, R) == ShrQuatRot(ShrQuatPos(mem, this, R), this, R)

\* operator>>=(const ChVector& D): this->pos += D
OpShrAssignVec(mem, this, D) == [mem EXCEPT ![this].pos = VAdd(mem[this].pos, D)]

\* operator>>=(const ChCoordsys& T)
OpShrAssign(mem, this, T) == ConcatenatePreTransformation(mem, this, T)

\* operator*=(const ChCoordsys& T)
OpMulAssign(mem, this, T) == ConcatenatePostTransformation(mem, this, T)

\* the greatest and the least value of the int argument of Cycle
IntMax == 2147483647

IntMin == (-IntMax) - 1

\* a % b of C on int: the remainder takes the sign of a
CRem(a, b) == IF a >= 0 \/ a % b = 0 THEN a % b ELSE (a % b) - b

\* a % b of C on the unsigned int with the bits of a
URem(a, b) == IF a >= 0 THEN a % b ELSE ((a % b) + 2 * ((IntMax % b) + 1)) % b

\* 3 * n leaves the range of int
MulOverflows(n) == n < (-(IntMax \div 3)) \/ n > IntMax \div 3

\* the int with the bits of n - 3 * n = -2n, for n < 0
Wrapped(n) ==
    IF n >= -(IntMax \div 2)
    THEN (-n) - n
    ELSE (-((n + IntMax) + 1)) - ((n + IntMax) + 1)

\* the values steps can take in Cycle(n).  Where 3 * n overflows the
\* behaviour is undefined: a build leaves the wrapped difference, and takes
\* its remainder signed, or unsigned if it has inferred n - 3 * n > 0.
CycleSteps(n) ==
    IF n < 0
    THEN IF MulOverflows(n)
         THEN {CRem(Wrapped(n), 3), URem(Wrapped(n), 3)}
         ELSE {CRem(n - 3 * n, 3)}
    ELSE {CRem(n, 3)}

\* ChQuaternion::SetVector: e1, e2, e3 replaced, e0 kept
SetVector(q, v) == <<q[1], v[1], v[2], v[3]>>

\* the body of Cycle after steps is computed
CycleBy(cs, steps) ==
    IF steps = 1
    THEN [cs EXCEPT !.rot = SetVector(cs.rot, <<cs.rot[4], cs.rot[2], cs.rot[3]>>)]
    ELSE IF steps = 2
         THEN [cs EXCEPT !.rot = SetVector(cs.rot, <<cs.rot[3], cs.rot[4], cs.rot[2]>>)]
         ELSE cs

\* the pose that reverses the mapping of a pose
Invert(cs) == ChCoordsys(RotateBack(cs.rot, VNeg(cs.pos)), GetConjugate(cs.rot))

\* CH_CLASS_VERSION(ChCoordsys<double>, 0)
ClassVersion == 0

\* marchive.VersionWrite<ChCoordsys<double>>(): the version is the next item
VersionWrite(ar) == Append(ar, [name |-> "version", value |-> ClassVersion])

\* marchive << CHNVP(x): the name-value pair is the next item
ArchiveOut(ar, name, value) == Append(ar, [name |-> name, value |-> value])

\* ArchiveOUT(ChArchiveOut& marchive): the archive after the call
ArchiveOUT(cs, ar) ==
    ArchiveOut(ArchiveOut(VersionWrite(ar), "pos", cs.pos), "rot", cs.rot)

\* a slip in ArchiveIN: rot streamed in before pos
ArchiveIN_rotfirst(ar) ==
    [ version |-> ar[1].value,
      cs |-> [pos |-> ar[3].value, rot |-> ar[2].value],
      ar |-> SubSeq(ar, 4, Len(ar)) ]

\* ArchiveIN(ChArchiveIn& marchive): VersionRead, marchive >> CHNVP(pos),
\* marchive >> CHNVP(rot) each take the next item; the result is the version
\* read, the object after the call and what is left of the archive
ArchiveIN(ar) ==
    [ version |-> ar[1].value,
      cs |-> [pos |-> ar[2].value, rot |-> ar[3].value],
      ar |-> SubSeq(ar, 4, Len(ar)) ]

\* ------------------------------------------------------------------------
\* ChCoordsys(origin, xdir, ydir): construction from a triad
\* ------------------------------------------------------------------------
\* <<ux, uy, uz>> with uy = uz % ux, normalized
TriadAxesY(ux, uz) == <<ux, Normalize(Vcross(uz, ux)), uz>>

\* a slip in the axes: uz.Normalize() left out
TriadAxesZ_unnormalized(ux, dy) == TriadAxesY(ux, Vcross(ux, dy))

\* ... with uz = ux % (ydir - origin), normalized
TriadAxesZ(ux, dy) == TriadAxesY(ux, Normalize(Vcross(ux, dy)))

\* the orthonormal vectors <<ux, uy, uz>> got from the three points
TriadAxes(origin, xdir, ydir) ==
    TriadAxesZ(Normalize(VSub(xdir, origin)), VSub(ydir, origin))

\* the matrix with the columns u[1], u[2], u[3], rows first
Columns(u) ==
    << <<u[1][1], u[2][1], u[3][1]>>,
       <<u[1][2], u[2][2], u[3][2]>>,
       <<u[1][3], u[2][3], u[3][3]>> >>

\* Real R[3][3], rows first: R[i][j] of the code is TriadMatrix(...)[i+1][j+1]
TriadMatrix(origin, xdir, ydir) == Columns(TriadAxes(origin, xdir, ydir))

Trace(R) == RAdd(RAdd(R[1][1], R[2][2]), R[3][3])

\* a slip in the pivot choice: x2 is never compared with x0
getMaxIdx_first(x0, x1, x2) ==
    IF RGeq(x0, x1) THEN 0
    ELSE IF RGeq(x1, x2) THEN 1
    ELSE 2

\* a slip in the pivot choice: the comparisons reversed
getMaxIdx_reversed(x0, x1, x2) ==
    IF RLeq(x0, x1) /\ RLeq(x0, x2) THEN 0
    ELSE IF RLeq(x1, x2) THEN 1
    ELSE 2

\* a slip in the pivot choice: strict comparisons, so a tie passes to the next
getMaxIdx_strict(x0, x1, x2) ==
    IF RGt(x0, x1) /\ RGt(x0, x2) THEN 0
    ELSE IF RGt(x1, x2) THEN 1
    ELSE 2

getMaxIdx(x0, x1, x2) ==
    IF RGeq(x0, x1) /\ RGeq(x0, x2) THEN 0
    ELSE IF RGeq(x1, x2) THEN 1
    ELSE 2

\* The divisor s is a square root that need not lie in the field, so the four
\* components are carried as the products e[k]*s, with s^2:
\*     e[k] = es[k+1] / sqrt(s2),   s = sqrt(s2) > 0.
\* The signs of e[k] are those of es[k+1], and e[j]*e[k] = es[j+1]*es[k+1]/s2.

\* [s2, es] with e[0] = s / 4 and the three other numerators
TraceQuat(s2, n1, n2, n3) == [s2 |-> s2, es |-> <<RDiv(s2, Q(4)), n1, n2, n3>>]

\* the trace >= 0 branch with the numerators of the transposed matrix
TriadTraceBranch_transposed(R) ==
    TraceQuat(RMul(Q(4), RAdd(Q(1), Trace(R))),
              RSub(R[3][2], R[2][3]), RSub(R[1][3], R[3][1]), RSub(R[2][1], R[1][2]))

\* trace >= 0: s = sqrt(1 + trace) * 2, e[0] = s / 4, e[1] = (R[1][2] - R[2][1]) / s, ...
TriadTraceBranch(R) ==
    TraceQuat(RMul(Q(4), RAdd(Q(1), Trace(R))),
              RSub(R[2][3], R[3][2]), RSub(R[3][1], R[1][3]), RSub(R[1][2], R[2][1]))

\* e[0] = w, e[i0 + 1] = s / 4, e[i1 + 1] = a, e[i2 + 1] = b
PivotQuat(i0, i1, s2, w, a, b) ==
    [ s2 |-> s2,
      es |-> << w,
                IF i0 = 0 THEN RDiv(s2, Q(4)) ELSE IF i1 = 0 THEN a ELSE b,
                IF i0 = 1 THEN RDiv(s2, Q(4)) ELSE IF i1 = 1 THEN a ELSE b,
                IF i0 = 2 THEN RDiv(s2, Q(4)) ELSE IF i1 = 2 THEN a ELSE b >> ]

\* s and the numerators for the pivot i0 and its successors i1, i2
PivotAt(R, i0, i1, i2) ==
    PivotQuat(i0, i1,
              RMul(Q(4), RSub(RSub(RAdd(Q(1), R[i0 + 1][i0 + 1]), R[i1 + 1][i1 + 1]),
                              R[i2 + 1][i2 + 1])),
              RSub(R[i2 + 1][i1 + 1], R[i1 + 1][i2 + 1]),
              RAdd(R[i0 + 1][i1 + 1], R[i1 + 1][i0 + 1]),
              RAdd(R[i0 + 1][i2 + 1], R[i2 + 1][i0 + 1]))

\* the index after i: (i + 1) % 3
NextIdx(i) == (i + 1) % 3

\* i1 = (i0 + 1) % 3, i2 = (i1 + 1) % 3
PivotFrom(R, i0) == PivotAt(R, i0, NextIdx(i0), NextIdx(NextIdx(i0)))

\* trace < 0: the pivot i0 is the largest diagonal entry
TriadPivotBranch(R) == PivotFrom(R, getMaxIdx(R[1][1], R[2][2], R[3][3]))

\* the matrix with the diagonal d and zeros elsewhere, and the diagonal of R
DiagMatrix(d) ==
    << <<d[1], Q(0), Q(0)>>, <<Q(0), d[2], Q(0)>>, <<Q(0), Q(0), d[3]>> >>

Diagonal(R) == <<R[1][1], R[2][2], R[3][3]>>

\* int i0, i1, i2 and the square of Real s of the trace < 0 branch
PivotSelection(R, i0) ==
    [ i0 |-> i0, i1 |-> NextIdx(i0), i2 |-> NextIdx(NextIdx(i0)), s2 |-> PivotFrom(R, i0).s2 ]

\* the conversion of R and pos.Set(origin), rot.Set(e[0], e[1], e[2], e[3])
TriadOfMatrix(origin, R) ==
    [ pos |-> origin,
      rot |-> IF RGeq(Trace(R), Q(0)) THEN TriadTraceBranch(R) ELSE TriadPivotBranch(R) ]

\* the constructor: [pos, rot], rot = [s2, es] standing for es / sqrt(s2)
ChCoordsysTriad(origin, xdir, ydir) == TriadOfMatrix(origin, TriadMatrix(origin, xdir, ydir))

\* es / s
QuatOver(es, s) == <<RDiv(es[1], s), RDiv(es[2], s), RDiv(es[3], s), RDiv(es[4], s)>>

\* the quaternion that [s2, es] stands for, when s lies in the field
TriadRot(rot) == QuatOver(rot.es, Sqrt(rot.s2))

\* rot.Rotate(v) of a constructed pose: Rotate is quadratic in the quaternion
TriadRotate(rot, v) == VScale(Rotate(rot.es, v), RDiv(Q(1), rot.s2))

\* ------------------------------------------------------------------------
\* ChTire::disc_terrain_contact
\* ------------------------------------------------------------------------
\* A terrain is a height field h0 + gx*x + gy*y together with the normal n it
\* reports: [h0, gx, gy, n].
GetHeight(terrain, x, y) == RAdd(terrain.h0, RAdd(RMul(terrain.gx, x), RMul(terrain.gy, y)))

GetNormal(terrain, x, y) == terrain.n

\* the matrix with columns X, Y, Z, rows first
Set_A_axis(X, Y, Z) ==
    << <<X[1], Y[1], Z[1]>>, <<X[2], Y[2], Z[2]>>, <<X[3], Y[3], Z[3]>> >>

\* the quaternion of a rotation matrix, as [s2, es] with e[k] = es[k+1]/sqrt(s2)
Get_A_quaternion(A) ==
    IF RGeq(Trace(A), Q(0))
    THEN TraceQuat(RMul(Q(4), RAdd(Q(1), Trace(A))),
                   RSub(A[3][2], A[2][3]), RSub(A[1][3], A[3][1]), RSub(A[2][1], A[1][2]))
    ELSE TriadPivotBranch(A)

\* the components 0/0 of an orientation built on a zero-length axis
UndefinedRot == [ s2 |-> Q(0), es |-> <<Q(0), Q(0), Q(0), Q(0)>> ]

\* disc_center.z <= hc || disc_center.z >= hc + disc_radius
OutOfReach(disc_center, hc, disc_radius) ==
    RLeq(disc_center[3], hc) \/ RGeq(disc_center[3], RAdd(hc, disc_radius))

\* a slip in the tilt direction: the x axis taken for the vertical
TiltDir_xaxis(disc_normal) == Vcross(disc_normal, ChVector(1, 0, 0))

\* dir1 = Vcross(disc_normal, ChVector<>(0, 0, 1))
TiltDir(disc_normal) == Vcross(disc_normal, ChVector(0, 0, 1))

\* sinTilt2 < 1e-3
AlmostHorizontal(sinTilt2) == RLt(sinTilt2, Frac(1, 1000))

\* a slip in the lowest point: the operands of the product exchanged
LowestPoint_swapped(disc_center, disc_normal, disc_radius, dir1) ==
    VAdd(disc_center,
         VScale(Vcross(VScale(dir1, RDiv(Q(1), Sqrt(Length2(dir1)))), disc_normal),
                disc_radius))

\* ptD = disc_center + disc_radius * Vcross(disc_normal, dir1 / sqrt(sinTilt2))
LowestPoint(disc_center, disc_normal, disc_radius, dir1) ==
    VAdd(disc_center,
         VScale(Vcross(disc_normal, VScale(dir1, RDiv(Q(1), Sqrt(Length2(dir1))))),
                disc_radius))

\* lateral = Vcross(normal, longitudinal); rot.Set_A_axis(longitudinal, lateral, normal)
ContactAxes(longitudinal, normal) ==
    Get_A_quaternion(Set_A_axis(longitudinal, Vcross(normal, longitudinal), normal))

\* longitudinal.Normalize(), of the product long0 of the two normals
ContactFrame(long0, normal) ==
    IF long0 = VNULL THEN UndefinedRot ELSE ContactAxes(Normalize(long0), normal)

\* longitudinal = Vcross(disc_normal, normal), ..., contact.rot = rot.Get_A_quaternion()
ContactRot(disc_normal, normal) == ContactFrame(Vcross(disc_normal, normal), normal)

\* depth = Vdot(ChVector<>(0, 0, hp - ptD.z), normal)
Depth(hp, ptD, normal) == Vdot(<<Q(0), Q(0), RSub(hp, ptD[3])>>, normal)

\* a slip in the exits: the depth cleared before returning false
NoContact_cleared(contact, depth) == [ret |-> "false", contact |-> contact, depth |-> Q(0)]

\* return false: the outputs are left as they were
NoContact(contact, depth) == [ret |-> "false", contact |-> contact, depth |-> depth]

\* contact.pos = ptD; contact.rot = ...; assert(depth > 0); return true
ContactFound(ptD, rot, d, ndebug) ==
    [ ret |-> IF RGt(d, Q(0)) \/ ndebug THEN "true" ELSE "abort",
      contact |-> [pos |-> ptD, rot |-> rot],
      depth |-> d ]

\* if (ptD.z > hp) return false; otherwise the frame and the depth
ContactOnTerrain(disc_normal, contact, depth, ndebug, ptD, hp, normal) ==
    IF RGt(ptD[3], hp) THEN NoContact(contact, depth)
    ELSE ContactFound(ptD, ContactRot(disc_normal, normal), Depth(hp, ptD, normal), ndebug)

\* hp = terrain.GetHeight(ptD.x, ptD.y); normal = terrain.GetNormal(ptD.x, ptD.y)
ContactAtPoint(terrain, disc_normal, contact, depth, ndebug, ptD) ==
    ContactOnTerrain(disc_normal, contact, depth, ndebug, ptD,
                     GetHeight(terrain, ptD[1], ptD[2]), GetNormal(terrain, ptD[1], ptD[2]))

\* if (sinTilt2 < 1e-3) return false; otherwise the lowest point ptD
ContactAlongTilt(terrain, disc_center, disc_normal, disc_radius, contact, depth, ndebug, dir1) ==
    IF AlmostHorizontal(Length2(dir1)) THEN NoContact(contact, depth)
    ELSE ContactAtPoint(terrain, disc_normal, contact, depth, ndebug,
                        LowestPoint(disc_center, disc_normal, disc_radius, dir1))

\* The call: [ret, contact, depth], ret being "true", "false", or "abort" when
\* assert(depth > 0) fails in a build that keeps assertions (ndebug false).
disc_terrain_contact(terrain, disc_center, disc_normal, disc_radius, contact, depth, ndebug) ==
    IF OutOfReach(disc_center, GetHeight(terrain, disc_center[1], disc_center[2]), disc_radius)
    THEN NoContact(contact, depth)
    ELSE ContactAlongTilt(terrain, disc_center, disc_normal, disc_radius, contact, depth,
                          ndebug, TiltDir(disc_normal))

\* ------------------------------------------------------------------------
\* State
\* ------------------------------------------------------------------------
VARIABLES
    csysA, csysB, csysC,    \* three ChCoordsys objects
    f_3,                    \* the frame a chain of transformations starts from
    mvect1,                 \* a point
    origin, xdir, ydir,     \* the three points of a triad
    diag,                   \* the diagonal R[0][0], R[1][1], R[2][2] a pivot is chosen on
    terrain,                \* the terrain of a contact query
    disc_center, disc_normal, disc_radius,  \* the disc of a contact query
    contact, depth,         \* the caller's output arguments of a contact query
    ndebug,                 \* TRUE in a build that compiles assertions out
    marchive,               \* the items an archive holds, in the order written
    op,                     \* the operation applied last, "init" before any
    res                     \* what that operation returned

vars ==
    << csysA, csysB, csysC, f_3, mvect1, origin, xdir, ydir, diag, terrain, disc_center, disc_normal,
       disc_radius, contact, depth, ndebug, marchive, op, res >>

discVars == <<terrain, disc_center, disc_normal, disc_radius, contact, depth, ndebug>>

poseVars == <<csysA, csysB, csysC, f_3, mvect1>>

triadVars == <<origin, xdir, ydir, diag>>

\* the orientations the poses range over: unit quaternions of Q(sqrt 2)
QuatList ==
    << QUNIT,
       <<HalfSqrt2, Q(0), Q(0), HalfSqrt2>>,
       <<Frac(3, 5), Q(0), Frac(4, 5), Q(0)>>,
       <<Frac(1, 2), Frac(1, 2), Frac(1, 2), Frac(1, 2)>>,
       ChQuaternion(0, 1, 0, 0),
       <<HalfSqrt2, HalfSqrt2, Q(0), Q(0)>> >>

\* the positions the poses and points range over
PosList ==
    << VNULL, ChVector(5, 6, 7), ChVector(2, 3, 4), ChVector(4, 1, 3), ChVector(1, 5, 1) >>

\* orientations are unit quaternions
Quats == {q \in {QuatList[i] : i \in 1..NumQuat} : QLength2(q) = Q(1)}

Positions == {PosList[i] : i \in 1..NumPos}

Poses == {ChCoordsys(v, q) : v \in Positions, q \in Quats}

\* ------------------------------------------------------------------------
\* Pose algebra: each action applies one expression to the drawn operands
\* ------------------------------------------------------------------------
NoPoses ==
    /\ csysA = CSYSNORM
    /\ csysB = CSYSNORM
    /\ csysC = CSYSNORM
    /\ f_3 = CSYSNORM
    /\ mvect1 = VNULL

NoArchive == marchive = <<>>

NoTriad == origin = VNULL /\ xdir = VNULL /\ ydir = VNULL /\ diag = VNULL

\* the caller's output arguments before a contact query
Contact0 == [pos |-> VNULL, rot |-> [s2 |-> Q(1), es |-> QUNIT]]

Depth0 == Q(-1)

FlatTerrain == [h0 |-> Q(0), gx |-> Q(0), gy |-> Q(0), n |-> ChVector(0, 0, 1)]

NoDisc ==
    /\ terrain = FlatTerrain
    /\ disc_center = VNULL
    /\ disc_normal = ChVector(0, 0, 1)
    /\ disc_radius = Q(1)
    /\ contact = Contact0
    /\ depth = Depth0
    /\ ndebug = TRUE

Init ==
    /\ NoArchive
    /\ NoTriad
    /\ NoDisc
    /\ csysA \in Poses
    /\ csysB \in Poses
    /\ csysC \in Poses
    /\ f_3 = CSYSNORM
    /\ mvect1 \in Positions
    /\ op = "init"
    /\ res = <<>>

\* (A * B) * C and A * (B * C)
ComposeChain ==
    /\ op = "init"
    /\ op' = "ComposeChain"
    /\ res' = <<OpMul(OpMul(csysA, csysB), csysC), OpMul(csysA, OpMul(csysB, csysC))>>
    /\ UNCHANGED <<poseVars, triadVars, discVars, marchive>>

\* A * inverse(A), inverse(A) * A and A.TransformParentToLocal(A)
ComposeInverse ==
    /\ op = "init"
    /\ op' = "ComposeInverse"
    /\ res' = << OpMul(csysA, Invert(csysA)), OpMul(Invert(csysA), csysA),
                 TransformParentToLocal(csysA, csysA) >>
    /\ UNCHANGED <<poseVars, triadVars, discVars, marchive>>

\* A.TransformParentToLocal(A.TransformLocalToParent(p)), A / (A * p), A * (A / p)
PointRoundTrip ==
    /\ op = "init"
    /\ op' = "PointRoundTrip"
    /\ res' = << TransformParentToLocalV(csysA, TransformLocalToParentV(csysA, mvect1)),
                 OpDiv(csysA, OpMulVec(csysA, mvect1)),
                 OpMulVec(csysA, OpDiv(csysA, mvect1)) >>
    /\ UNCHANGED <<poseVars, triadVars, discVars, marchive>>

Next ==
    \/ ComposeChain
    \/ ComposeInverse
    \/ PointRoundTrip

Spec == Init /\ [][Next]_vars

\* ------------------------------------------------------------------------
\* Chains of frames: f_3 carried through f32 = csysC, f21 = csysB, f10 = csysA
\* ------------------------------------------------------------------------
ChainInit ==
    /\ NoArchive
    /\ NoTriad
    /\ NoDisc
    /\ csysA \in Poses
    /\ csysB \in Poses
    /\ csysC \in Poses
    /\ f_3 \in Poses
    /\ mvect1 = VNULL
    /\ op = "init"
    /\ res = <<>>

\* A >> B, B * A, f_3 >> f32 >> f21 >> f10 and f10 * f21 * f32 * f_3, A * B
Chain ==
    /\ op = "init"
    /\ op' = "Chain"
    /\ res' = << OpShr(csysA, csysB), OpMul(csysB, csysA),
                 OpShr(OpShr(OpShr(f_3, csysC), csysB), csysA),
                 OpMul(OpMul(OpMul(csysA, csysB), csysC), f_3),
                 OpMul(csysA, csysB) >>
    /\ UNCHANGED <<poseVars, triadVars, discVars, marchive>>

ChainNext == Chain

ChainSpec == ChainInit /\ [][ChainNext]_vars

\* ------------------------------------------------------------------------
\* Operators of the transform algebra, applied to the objects A = csysA and
\* T = csysB, the point mvect1 and the quaternion csysB.rot
\* ------------------------------------------------------------------------
OperatorInit ==
    /\ NoArchive
    /\ NoTriad
    /\ NoDisc
    /\ csysA \in Poses
    /\ csysB \in Poses
    /\ csysC = CSYSNORM
    /\ f_3 = CSYSNORM
    /\ mvect1 \in Positions
    /\ op = "init"
    /\ res = <<>>

\* A >>= T, which returns *this
ShrAssign ==
    /\ op = "init"
    /\ op' = "ShrAssign"
    /\ \E m \in {OpShrAssign(Mem(csysA, csysB), "A", "T")} :
          csysA' = m.A /\ csysB' = m.T /\ res' = m.A
    /\ UNCHANGED <<csysC, f_3, mvect1, triadVars, discVars, marchive>>

\* A *= T, which returns *this
MulAssign ==
    /\ op = "init"
    /\ op' = "MulAssign"
    /\ \E m \in {OpMulAssign(Mem(csysA, csysB), "A", "T")} :
          csysA' = m.A /\ csysB' = m.T /\ res' = m.A
    /\ UNCHANGED <<csysC, f_3, mvect1, triadVars, discVars, marchive>>

\* A >>= R with R the orientation of T, which returns *this
ShrAssignQuat ==
    /\ op = "init"
    /\ op' = "ShrAssignQuat"
    /\ \E m \in {OpShrAssignQuat(Mem(csysA, csysB), "A", "T")} :
          csysA' = m.A /\ csysB' = m.T /\ res' = m.A
    /\ UNCHANGED <<csysC, f_3, mvect1, triadVars, discVars, marchive>>

\* the operators applied to A, v = mvect1, q = T.rot and the identities
\* I = ChCoordsys() and q1 = ChQuaternion(1, 0, 0, 0)
IdentityOps ==
    /\ op = "init"
    /\ op' = "IdentityOps"
    /\ res' = [ poses |-> << OpMul(CSYSNORM, csysA), OpMul(csysA, CSYSNORM),
                            OpShr(csysA, CSYSNORM), OpShr(CSYSNORM, csysA),
                            OpShrQuat(csysA, QUNIT), OpQuatMul(QUNIT, csysA) >>,
                points |-> << OpMulVec(CSYSNORM, mvect1), OpVecShr(mvect1, CSYSNORM),
                             OpDiv(CSYSNORM, mvect1) >>,
                quats |-> << OpMulQuat(CSYSNORM, csysB.rot), OpQuatShr(csysB.rot, CSYSNORM) >> ]
    /\ UNCHANGED <<poseVars, triadVars, discVars, marchive>>

\* A >>= D with D = mvect1, which returns *this
ShrAssignVec ==
    /\ op = "init"
    /\ op' = "ShrAssignVec"
    /\ \E m \in {OpShrAssignVec(Mem(csysA, csysB), "A", mvect1)} :
          csysA' = m.A /\ csysB' = m.T /\ res' = m.A
    /\ UNCHANGED <<csysC, f_3, mvect1, triadVars, discVars, marchive>>

\* the mixed operators applied to A, v = mvect1 and q = T.rot
MixedOps ==
    /\ op = "init"
    /\ op' = "MixedOps"
    /\ res' = [ translated |-> << OpVecMul(mvect1, csysA), OpShrVec(csysA, mvect1) >>,
                rotated |-> << OpQuatMul(csysB.rot, csysA), OpShrQuat(csysA, csysB.rot) >>,
                points |-> << OpMulVec(csysA, mvect1), OpVecShr(mvect1, csysA) >>,
                quats |-> << OpMulQuat(csysA, csysB.rot), OpQuatShr(csysB.rot, csysA) >> ]
    /\ UNCHANGED <<poseVars, triadVars, discVars, marchive>>

\* A >>= A: the parameter T refers to the object the call modifies
ShrAssignSelf ==
    /\ op = "init"
    /\ op' = "ShrAssignSelf"
    /\ \E m \in {OpShrAssign(Mem(csysA, csysB), "A", "A")} :
          csysA' = m.A /\ csysB' = m.T /\ res' = m.A
    /\ UNCHANGED <<csysC, f_3, mvect1, triadVars, discVars, marchive>>

\* A *= A
MulAssignSelf ==
    /\ op = "init"
    /\ op' = "MulAssignSelf"
    /\ \E m \in {OpMulAssign(Mem(csysA, csysB), "A", "A")} :
          csysA' = m.A /\ csysB' = m.T /\ res' = m.A
    /\ UNCHANGED <<csysC, f_3, mvect1, triadVars, discVars, marchive>>

\* A >>= A.rot: the parameter R refers to the orientation of the object the
\* call modifies
ShrAssignQuatSelf ==
    /\ op = "init"
    /\ op' = "ShrAssignQuatSelf"
    /\ \E m \in {OpShrAssignQuat(Mem(csysA, csysB), "A", "A")} :
          csysA' = m.A /\ csysB' = m.T /\ res' = m.A
    /\ UNCHANGED <<csysC, f_3, mvect1, triadVars, discVars, marchive>>

OperatorNext ==
    \/ ShrAssign
    \/ MulAssign
    \/ ShrAssignQuat
    \/ IdentityOps
    \/ ShrAssignVec
    \/ MixedOps
    \/ ShrAssignSelf
    \/ MulAssignSelf
    \/ ShrAssignQuatSelf

OperatorSpec == OperatorInit /\ [][OperatorNext]_vars

\* ------------------------------------------------------------------------
\* Archiving: csysA written to the archive, csysB read back from it
\* ------------------------------------------------------------------------
ArchiveInit ==
    /\ NoArchive
    /\ NoTriad
    /\ NoDisc
    /\ csysA \in Poses
    /\ csysB \in Poses
    /\ csysC = CSYSNORM
    /\ f_3 = CSYSNORM
    /\ mvect1 = VNULL
    /\ op = "init"
    /\ res = <<>>

\* csysA.ArchiveOUT(marchive)
WriteArchive ==
    /\ op = "init"
    /\ op' = "ArchiveOUT"
    /\ marchive' = ArchiveOUT(csysA, marchive)
    /\ UNCHANGED <<poseVars, triadVars, discVars, res>>

\* csysB.ArchiveIN(marchive), on the archive that ArchiveOUT wrote
ReadArchive ==
    /\ op = "ArchiveOUT"
    /\ op' = "ArchiveIN"
    /\ \E r \in {ArchiveIN(marchive)} :
          /\ csysB' = r.cs
          /\ marchive' = r.ar
          /\ res' = r.version
    /\ UNCHANGED <<csysA, csysC, f_3, mvect1, triadVars, discVars>>

ArchiveNext ==
    \/ WriteArchive
    \/ ReadArchive

ArchiveSpec == ArchiveInit /\ [][ArchiveNext]_vars

\* ------------------------------------------------------------------------
\* Triad construction, applied to the drawn triads
\* ------------------------------------------------------------------------
Coords == {Q(n) : n \in -MaxCoord..MaxCoord}

Offsets == {<<x, y, z>> : x \in Coords, y \in Coords, z \in Coords}

TriadOrigins == {VNULL, ChVector(1, 2, 3)}

\* the precondition of the constructor (the three points are not collinear),
\* for separations whose lengths lie in the field
ValidAxis(c) == c # VNULL /\ HasSqrt(Length2(c))

ValidTriad(dx, dy) == ValidAxis(dx) /\ ValidAxis(Vcross(Normalize(dx), dy))

TriadInit ==
    /\ NoArchive
    /\ NoPoses
    /\ NoDisc
    /\ origin \in TriadOrigins
    /\ \E dx \in Offsets, dy \in Offsets :
          /\ ValidTriad(dx, dy)
          /\ xdir = VAdd(origin, dx)
          /\ ydir = VAdd(origin, dy)
    /\ diag = VNULL
    /\ op = "init"
    /\ res = <<>>

Construct ==
    /\ op = "init"
    /\ op' = "Construct"
    /\ res' = ChCoordsysTriad(origin, xdir, ydir)
    /\ UNCHANGED <<poseVars, triadVars, discVars, marchive>>

TriadNext == Construct

TriadSpec == TriadInit /\ [][TriadNext]_vars

\* ------------------------------------------------------------------------
\* Pivot selection of the trace < 0 branch, applied to diagonals drawn from
\* [-1, 1] and to the diagonals of the matrices of the drawn triads
\* ------------------------------------------------------------------------
DiagValues == {Frac(k, DiagDen) : k \in -DiagDen..DiagDen}

Diagonals == {<<x0, x1, x2>> : x0 \in DiagValues, x1 \in DiagValues, x2 \in DiagValues}

PivotInit ==
    /\ NoArchive
    /\ NoPoses
    /\ NoDisc
    /\ origin = VNULL
    /\ \/ xdir = VNULL /\ ydir = VNULL /\ diag \in Diagonals
       \/ \E dx \in Offsets, dy \in Offsets :
             /\ ValidTriad(dx, dy)
             /\ xdir = dx
             /\ ydir = dy
             /\ diag = Diagonal(TriadMatrix(VNULL, dx, dy))
    /\ op = "init"
    /\ res = <<>>

\* i0 = getMaxIdx(R[0][0], R[1][1], R[2][2]), i1, i2 and s
SelectPivot ==
    /\ op = "init"
    /\ op' = "SelectPivot"
    /\ res' = PivotSelection(DiagMatrix(diag), getMaxIdx(diag[1], diag[2], diag[3]))
    /\ UNCHANGED <<poseVars, triadVars, discVars, marchive>>

PivotNext == SelectPivot

PivotSpec == PivotInit /\ [][PivotNext]_vars

\* ------------------------------------------------------------------------
\* Cycle, called up to MaxCalls times on the pose csysA; csysB keeps the pose
\* before the first call and res the arguments of the calls
\* ------------------------------------------------------------------------
CycleArgs ==
    (-MaxCycle..MaxCycle)
        \cup {IntMax, IntMin, -(IntMax \div 2), (-(IntMax \div 2)) - 1,
              -(IntMax \div 3), (-(IntMax \div 3)) - 1}

\* orientations with distinct e1, e2, e3 among them
CycleQuats == Quats \cup {ChQuaternion(0, 1, 0, 0), <<Q(0), Frac(2, 7), Frac(3, 7), Frac(6, 7)>>}

CyclePoses == {ChCoordsys(v, q) : v \in Positions, q \in CycleQuats}

CycleInit ==
    /\ NoArchive
    /\ NoTriad
    /\ NoDisc
    /\ csysA \in CyclePoses
    /\ csysB = csysA
    /\ csysC = CSYSNORM
    /\ f_3 = CSYSNORM
    /\ mvect1 = VNULL
    /\ op = "init"
    /\ res = <<>>

\* csysA.Cycle(n)
Cycle ==
    /\ Len(res) < MaxCalls
    /\ op' = "Cycle"
    /\ \E n \in CycleArgs : \E steps \in CycleSteps(n) :
          /\ csysA' = CycleBy(csysA, steps)
          /\ res' = Append(res, n)
    /\ UNCHANGED <<csysB, csysC, f_3, mvect1, triadVars, discVars, marchive>>

CycleNext == Cycle

CycleSpec == CycleInit /\ [][CycleNext]_vars

\* ------------------------------------------------------------------------
\* Contact query, applied to the drawn discs and terrains
\* ------------------------------------------------------------------------
\* unit disc normals: horizontal, tilted just below and just above the guard
\* (sinTilt2 = 16384/16785409 and 3969/3940225), tilted 45 degrees, tilted
\* about x, vertical, tilted about y
DiscNormals ==
    { ChVector(0, 0, 1),
      <<Frac(128, 4097), Q(0), Frac(4095, 4097)>>,
      <<Frac(63, 1985), Q(0), Frac(1984, 1985)>>,
      <<HalfSqrt2, Q(0), HalfSqrt2>>,
      <<Frac(3, 5), Q(0), Frac(4, 5)>>,
      ChVector(1, 0, 0),
      <<Q(0), Frac(4, 5), Frac(3, 5)>> }

DiscRadii == {Q(1), Q(5)}

DiscCenters == {<<Q(x), Q(0), Frac(k, 2)>> : x \in {0, 1}, k \in -1..MaxCenterZ2}

\* unit terrain normals, all with a positive z component
TerrainNormals ==
    { ChVector(0, 0, 1), <<HalfSqrt2, Q(0), HalfSqrt2>>, <<Frac(-3, 5), Q(0), Frac(4, 5)>> }

TerrainSlopes == {<<0, 0>>, <<-1, 0>>, <<0, 1>>}

Terrains ==
    { [h0 |-> Q(0), gx |-> Q(g[1]), gy |-> Q(g[2]), n |-> n] :
        g \in TerrainSlopes, n \in TerrainNormals }

\* the length of the longitudinal axis lies in the field
FrameInField(dn, n) == HasSqrt(Length2(Vcross(dn, n)))

DiscInit ==
    /\ NoArchive
    /\ NoPoses
    /\ NoTriad
    /\ terrain \in Terrains
    /\ disc_center \in DiscCenters
    /\ disc_normal \in DiscNormals
    /\ Length2(disc_normal) = Q(1)
    /\ Length2(terrain.n) = Q(1)
    /\ RGt(terrain.n[3], Q(0))
    /\ disc_radius \in DiscRadii
    /\ FrameInField(disc_normal, terrain.n)
    /\ contact = Contact0
    /\ depth = Depth0
    /\ ndebug \in BOOLEAN
    /\ op = "init"
    /\ res = <<>>

ContactQuery ==
    /\ op = "init"
    /\ op' = "ContactQuery"
    /\ \E r \in {disc_terrain_contact(terrain, disc_center, disc_normal, disc_radius,
                                      contact, depth, ndebug)} :
          /\ res' = r.ret
          /\ contact' = r.contact
          /\ depth' = r.depth
    /\ UNCHANGED <<poseVars, triadVars, terrain, disc_center, disc_normal, disc_radius, ndebug, marchive>>

DiscNext == ContactQuery

DiscSpec == DiscInit /\ [][DiscNext]_vars

\* ------------------------------------------------------------------------
\* Claims
\* ------------------------------------------------------------------------
\* C1: pose composition is associative: for all poses A, B, C with unit
\* orientations, (A * B) * C = A * (B * C).
C1_Associative == op = "ComposeChain" => res[1] = res[2]

\* three poses whose orientations do not commute and whose positions are not 0
C1_Witness ==
    /\ op = "ComposeChain"
    /\ QMul(csysA.rot, csysB.rot) # QMul(csysB.rot, csysA.rot)
    /\ csysB.pos # VNULL
    /\ csysC.pos # VNULL
    /\ csysC.rot # QUNIT

\* C2: composing a pose with its inverse, in either order, gives the identity
\* pose, and so does A.TransformParentToLocal(A).
C2_InverseIsIdentity ==
    op = "ComposeInverse" => res[1] = CSYSNORM /\ res[2] = CSYSNORM /\ res[3] = CSYSNORM

\* a pose that both translates and rotates
C2_Witness == op = "ComposeInverse" /\ csysA.pos # VNULL /\ csysA.rot # QUNIT

\* C3: mapping a point to the parent frame and back, or back and forth, with
\* the named functions or with '*' and '/', returns the point.
C3_PointRoundTrip ==
    op = "PointRoundTrip" => res[1] = mvect1 /\ res[2] = mvect1 /\ res[3] = mvect1

\* a translating, rotating pose and a point that the pose moves
C3_Witness ==
    /\ op = "PointRoundTrip"
    /\ csysA.pos # VNULL
    /\ csysA.rot # QUNIT
    /\ TransformLocalToParentV(csysA, mvect1) # mvect1

\* C4: for every non-collinear triad the constructed pose has position origin
\* and an orientation q with q.Rotate((1,0,0)) = normalize(xdir - origin) and
\* q.Rotate((0,0,1)) = normalize((xdir - origin) x (ydir - origin)), whichever
\* branch of the conversion is taken.
C4_TriadMapsAxes ==
    op = "Construct" =>
        LET dx == VSub(xdir, origin)
            dy == VSub(ydir, origin)
        IN  /\ res.pos = origin
            /\ TriadRotate(res.rot, ChVector(1, 0, 0)) = Normalize(dx)
            /\ TriadRotate(res.rot, ChVector(0, 0, 1)) = Normalize(Vcross(dx, dy))

\* C5: when trace >= 0 the quaternion is s = 2*sqrt(1 + trace), e0 = s/4,
\* e1 = (R21 - R12)/s, e2 = (R02 - R20)/s, e3 = (R10 - R01)/s, R having the
\* columns ux, uy, uz.
C5_TraceBranchFormula ==
    op = "Construct" =>
        LET R == TriadMatrix(origin, xdir, ydir)
            trace == RAdd(RAdd(R[1][1], R[2][2]), R[3][3])
        IN  RGeq(trace, Q(0)) =>
                /\ res.rot.s2 = RMul(Q(4), RAdd(Q(1), trace))
                /\ res.rot.es[1] = RDiv(res.rot.s2, Q(4))
                /\ res.rot.es[2] = RSub(R[3][2], R[2][3])
                /\ res.rot.es[3] = RSub(R[1][3], R[3][1])
                /\ res.rot.es[4] = RSub(R[2][1], R[1][2])

\* the constructed pose has the divisor s = 4 and the orientation q
HalfTurn(q) == res.rot.s2 = Q(16) /\ res.rot.es[1] = Q(0) /\ TriadRot(res.rot) = q

\* C6: with origin (0,0,0), the triads of the half turns about the coordinate
\* axes give the unit axis quaternions: ((1,0,0),(0,-1,0)) gives (0,1,0,0),
\* ((-1,0,0),(0,1,0)) gives (0,0,1,0), ((-1,0,0),(0,-1,0)) gives (0,0,0,1),
\* each with s = 4 and e0 = 0.
C6_HalfTurns ==
    op = "Construct" /\ origin = VNULL =>
        /\ xdir = ChVector(1, 0, 0) /\ ydir = ChVector(0, -1, 0)
              => HalfTurn(ChQuaternion(0, 1, 0, 0))
        /\ xdir = ChVector(-1, 0, 0) /\ ydir = ChVector(0, 1, 0)
              => HalfTurn(ChQuaternion(0, 0, 1, 0))
        /\ xdir = ChVector(-1, 0, 0) /\ ydir = ChVector(0, -1, 0)
              => HalfTurn(ChQuaternion(0, 0, 0, 1))

\* the half turn about z has been constructed
C6_Witness ==
    /\ op = "Construct"
    /\ origin = VNULL
    /\ xdir = ChVector(-1, 0, 0)
    /\ ydir = ChVector(0, -1, 0)
    /\ RLt(Trace(TriadMatrix(origin, xdir, ydir)), Q(0))

\* e0^2 and e3^2 of a constructed pose
E0Squared == RDiv(RMul(res.rot.es[1], res.rot.es[1]), res.rot.s2)

E3Squared == RDiv(RMul(res.rot.es[4], res.rot.es[4]), res.rot.s2)

C8_DepthPositive ==
    op = "ContactQuery" => res # "abort" /\ (res = "true" => RGt(depth, Q(0)))

\* C9: a horizontal disc (normal (0,0,1)) gets no contact, whatever the height
\* of its centre, its radius and the terrain.
C9_HorizontalNoContact ==
    op = "ContactQuery" /\ disc_normal = ChVector(0, 0, 1) => res = "false"

\* a horizontal disc whose centre passed the height checks of step 1
C9_Witness ==
    /\ op = "ContactQuery"
    /\ disc_normal = ChVector(0, 0, 1)
    /\ ~OutOfReach(disc_center, GetHeight(terrain, disc_center[1], disc_center[2]), disc_radius)
    /\ terrain.gx # Q(0)

\* hc < center.z < hc + radius, |discNormal x (0,0,1)|^2 >= 1e-3, ptD.z <= hp
ContactConditions ==
    LET hc == GetHeight(terrain, disc_center[1], disc_center[2])
        sinTilt2 == RAdd(RMul(disc_normal[1], disc_normal[1]),
                         RMul(disc_normal[2], disc_normal[2]))
    IN  /\ RLt(hc, disc_center[3])
        /\ RLt(disc_center[3], RAdd(hc, disc_radius))
        /\ RGeq(sinTilt2, Frac(1, 1000))
        /\ LET ptD == LowestPoint(disc_center, disc_normal, disc_radius,
                                  Vcross(disc_normal, ChVector(0, 0, 1)))
           IN  RLeq(ptD[3], GetHeight(terrain, ptD[1], ptD[2]))

\* C10: the query reports contact iff hc < center.z < hc + radius, the squared
\* tilt sine is >= 1e-3 and ptD.z <= hp; on flat terrain at height 0 a disc of
\* radius 1 tilted 45 degrees centred at (0,0,1/2) gets contact with depth
\* radius*sin(tilt) - center.z, and centred at (0,0,2) gets no contact.
C10_ContactIff ==
    op = "ContactQuery" =>
        /\ res = "true" <=> ContactConditions
        /\ terrain = FlatTerrain /\ disc_radius = Q(1)
              /\ disc_normal = <<HalfSqrt2, Q(0), HalfSqrt2>> =>
              /\ disc_center = <<Q(0), Q(0), Frac(1, 2)>> =>
                    res = "true" /\ depth = RSub(HalfSqrt2, Frac(1, 2))
              /\ disc_center = ChVector(0, 0, 2) => res = "false"

\* C11: the contact derivation degrades to no contact rather than producing
\* an undefined frame: whenever the query reports contact, the longitudinal
\* axis discNormal x n, n the terrain normal at ptD, is not the zero vector.
C11_FrameDefined ==
    op = "ContactQuery" /\ res = "true" =>
        Vcross(disc_normal, GetNormal(terrain, contact.pos[1], contact.pos[2])) # VNULL

\* C12: '>>' and '*' follow one convention with opposite operand order:
\* A >> B = B * A, and f_3 >> f32 >> f21 >> f10 = f10 * f21 * f32 * f_3, both
\* chains evaluated left to right; the composition is not commutative: there
\* are poses A, B with A * B # B * A.
C12_ChainConvention ==
    op = "Chain" =>
        /\ res[1] = res[2]
        /\ res[3] = res[4]
        /\ \E A \in Poses, B \in Poses : OpMul(A, B) # OpMul(B, A)

\* a chain of four frames, two of which do not commute
C12_Witness ==
    /\ op = "Chain"
    /\ res[5] # res[2]
    /\ f_3.pos # VNULL /\ f_3.rot # QUNIT
    /\ csysC.rot # QUNIT /\ csysC.pos # VNULL
    /\ csysA # csysB /\ csysB # csysC

\* C13: in-place concatenation matches the value-returning composition: a
\* step A >>= T leaves A = T * A_old = A_old >> T, a step A *= T leaves
\* A = A_old * T = T >> A_old, and neither modifies T.
C13_InPlaceMatches ==
    [][ /\ op' = "ShrAssign" =>
              csysA' = OpMul(csysB, csysA) /\ csysA' = OpShr(csysA, csysB) /\ csysB' = csysB
        /\ op' = "MulAssign" =>
              csysA' = OpMul(csysA, csysB) /\ csysA' = OpShr(csysB, csysA) /\ csysB' = csysB
      ]_vars

\* A *= T has been applied with a T that moved and turned A, which had itself
\* a rotation T does not commute with
C13_Witness ==
    /\ op = "MulAssign"
    /\ csysB.pos # VNULL
    /\ csysB.rot # QUNIT
    /\ csysA.rot # csysB.rot
    /\ csysA.pos # csysB.pos
    /\ QMul(csysA.rot, csysB.rot) # QMul(csysB.rot, csysA.rot)

\* C14: composing through an identity is a no-op: with I the default pose and
\* q1 = (1,0,0,0), I * A = A * I = A >> I = I >> A = A, I * v = v >> I = I / v
\* = v, A >> q1 = q1 * A = A, I * q = q >> I = q, and the steps A >>= I,
\* A *= I and A >>= q1 leave A unchanged.
C14_IdentityNoOp ==
    [][ /\ op' = "IdentityOps" =>
              /\ \A i \in 1..6 : res'.poses[i] = csysA
              /\ \A i \in 1..3 : res'.points[i] = mvect1
              /\ \A i \in 1..2 : res'.quats[i] = csysB.rot
        /\ op' \in {"ShrAssign", "MulAssign"} /\ csysB = CSYSNORM => csysA' = csysA
        /\ op' = "ShrAssignQuat" /\ csysB.rot = QUNIT => csysA' = csysA
      ]_vars

\* the operators have been applied to a pose that translates and rotates, a
\* point that is not the origin and a quaternion that is not the identity
C14_Witness ==
    /\ op = "IdentityOps"
    /\ csysA.pos # VNULL
    /\ csysA.rot # QUNIT
    /\ mvect1 # VNULL
    /\ csysB.rot # QUNIT
    /\ res.poses[1] = csysA

\* C15: archiving preserves field order: ArchiveOUT emits the version, then
\* pos, then rot; ArchiveIN takes the version, then pos, then rot, so reading
\* back what ArchiveOUT wrote restores a pose equal to the one written.
C15_ArchiveOrder ==
    /\ op = "ArchiveOUT" =>
          marchive = << [name |-> "version", value |-> ClassVersion],
                        [name |-> "pos", value |-> csysA.pos],
                        [name |-> "rot", value |-> csysA.rot] >>
    /\ op = "ArchiveIN" => csysB = csysA /\ res = ClassVersion /\ marchive = <<>>

\* a pose that translates and rotates has been written and read back
C15_Witness ==
    /\ op = "ArchiveIN"
    /\ csysA.pos # VNULL
    /\ csysA.rot # QUNIT
    /\ csysB.pos = csysA.pos

\* the call returned false and left contact and depth as they were
OrdinaryNoContact == res' = "false" /\ contact' = contact /\ depth' = depth

\* the lowest point of the disc lies above the terrain
LowestPointAbove ==
    LET ptD == LowestPoint(disc_center, disc_normal, disc_radius, TiltDir(disc_normal))
    IN  RGt(ptD[3], GetHeight(terrain, ptD[1], ptD[2]))

\* C16: every early-exit condition of the contact query (centre at or below
\* the terrain, centre a radius or more above it, disc almost horizontal,
\* lowest point above the terrain) is an ordinary non-contact outcome: the
\* call returns false without reaching the depth assertion and leaves the
\* output arguments contact and depth exactly as they were.
C16_EarlyExitsOrdinary ==
    [][ op' = "ContactQuery" =>
          LET hc == GetHeight(terrain, disc_center[1], disc_center[2])
              horizontal == AlmostHorizontal(Length2(TiltDir(disc_normal)))
          IN  /\ RLeq(disc_center[3], hc) => OrdinaryNoContact
              /\ RGeq(disc_center[3], RAdd(hc, disc_radius)) => OrdinaryNoContact
              /\ horizontal => OrdinaryNoContact
              /\ ~horizontal /\ LowestPointAbove => OrdinaryNoContact
              /\ res' = "false" => contact' = contact /\ depth' = depth
      ]_vars

\* a query that passed the height and tilt checks and left by the last exit
C16_Witness ==
    /\ op = "ContactQuery"
    /\ res = "false"
    /\ ~OutOfReach(disc_center, GetHeight(terrain, disc_center[1], disc_center[2]), disc_radius)
    /\ ~AlmostHorizontal(Length2(TiltDir(disc_normal)))
    /\ LowestPointAbove
    /\ contact = Contact0
    /\ depth = Depth0

\* C17: getMaxIdx(x0, x1, x2) returns an index of a maximal argument, the
\* lowest such index on ties, so the pivot indices i0, i1 = (i0+1) mod 3,
\* i2 = (i1+1) mod 3 are a cyclic permutation of 0, 1, 2.
C17_PivotIsLowestMax ==
    op = "SelectPivot" =>
        /\ res.i0 \in 0..2
        /\ \A k \in 0..2 : RGeq(diag[res.i0 + 1], diag[k + 1])
        /\ \A k \in 0..2 : k < res.i0 => RLt(diag[k + 1], diag[res.i0 + 1])
        /\ <<res.i0, res.i1, res.i2>> \in {<<0, 1, 2>>, <<1, 2, 0>>, <<2, 0, 1>>}

\* a pivot chosen among two equal maximal entries that are not the first
C17_Witness ==
    /\ op = "SelectPivot"
    /\ res.i0 = 1
    /\ diag[2] = diag[3]
    /\ RLt(diag[1], diag[2])

\* the diagonal sums to less than 0, so the trace < 0 branch is taken
NegativeTrace == RLt(RAdd(RAdd(diag[1], diag[2]), diag[3]), Q(0))

\* the pivot entry is greater than the two other diagonal entries
UniqueMaximum == RGt(diag[res.i0 + 1], diag[res.i1 + 1]) /\ RGt(diag[res.i0 + 1], diag[res.i2 + 1])

\* C18, as amended: in the trace < 0 branch the radicand
\* 1 + R[i0][i0] - R[i1][i1] - R[i2][i2] is strictly greater than 1 (s > 2, that
\* is s^2 > 4) for all diagonal entries in [-1, 1] with negative sum and i0
\* chosen by getMaxIdx, whether or not the maximal entry is unique.
C18_DivisorBounded ==
    op = "SelectPivot" /\ NegativeTrace => RGt(res.s2, Q(4))

\* the matrix of a triad took the branch with two equal maximal diagonal entries
C18_Witness ==
    /\ op = "SelectPivot"
    /\ NegativeTrace
    /\ xdir # VNULL
    /\ ~UniqueMaximum
    /\ diag = ChVector(0, 0, -1)
    /\ res.s2 = Q(8)

\* C18, as stated: the radicand is strictly greater than 1 (s > 2), this needs
\* a diagonal entry that is the unique maximum, and every valid rotation matrix
\* taking the branch has one.
C18_UniqueMaximumNeeded ==
    op = "SelectPivot" /\ NegativeTrace =>
        /\ RGt(res.s2, Q(4))
        /\ RGt(res.s2, Q(4)) => UniqueMaximum
        /\ xdir # VNULL => UniqueMaximum

\* the factors a > 0 and b > 0 of the separations, and the shifts c along x
Stretches == {Frac(1, 1000), Frac(1, 2), Q(2), Q(3)}

Shifts == {Q(-10), Q(0), Q(1), Q(7)}

\* the orientation built with xdir at a times its separation from origin
StretchedX(a) ==
    ChCoordsysTriad(origin, VAdd(origin, VScale(VSub(xdir, origin), a)), ydir).rot

\* the orientation built with ydir at origin + c*(xdir - origin) + b*(ydir - origin)
StretchedY(c, b) ==
    ChCoordsysTriad(origin, xdir,
                    VAdd(origin, VAdd(VScale(VSub(xdir, origin), c),
                                      VScale(VSub(ydir, origin), b)))).rot

\* the orientation built with xdir - origin = (1,0,0) and ydir - origin = (c,b,0)
AlongX(c, b) ==
    TriadRot(ChCoordsysTriad(origin, VAdd(origin, ChVector(1, 0, 0)),
                             VAdd(origin, <<c, b, Q(0)>>)).rot)

\* C19: the orientation built by the triad constructor depends on directions
\* only: xdir moved to origin + a*(xdir - origin), a > 0, or ydir moved to
\* origin + c*(xdir - origin) + b*(ydir - origin), b > 0, any c, leaves the
\* quaternion unchanged; with xdir - origin = (1,0,0), ydir - origin = (c,b,0)
\* gives (1,0,0,0) when b > 0 and (0,1,0,0) when b < 0, however small |b| is.
C19_DirectionsOnly ==
    op = "Construct" =>
        /\ \A a \in Stretches : StretchedX(a) = res.rot
        /\ \A c \in Shifts, b \in Stretches : StretchedY(c, b) = res.rot
        /\ \A c \in Shifts, b \in Stretches :
              /\ AlongX(c, b) = ChQuaternion(1, 0, 0, 0)
              /\ AlongX(c, RNeg(b)) = ChQuaternion(0, 1, 0, 0)

\* a triad with a non-zero origin and an orientation that is no coordinate
\* half turn, which keeps its orientation with ydir almost parallel to x
C19_Witness ==
    /\ op = "Construct"
    /\ origin # VNULL
    /\ res.rot.es[1] # Q(0)
    /\ res.rot.es[4] # Q(0)
    /\ StretchedY(Q(-10), Frac(1, 1000)) = res.rot
    /\ StretchedX(Q(3)) = res.rot

\* ptD - disc_center, for a disc that passes the tilt guard
RimOffset ==
    VSub(LowestPoint(disc_center, disc_normal, disc_radius, TiltDir(disc_normal)), disc_center)

\* <<cos, sin>> of the angles at which other rim points are taken
RimAngles ==
    { <<Q(1), Q(0)>>, <<Q(-1), Q(0)>>, <<Q(0), Q(-1)>>, <<Frac(3, 5), Frac(4, 5)>>,
      <<Frac(-4, 5), Frac(3, 5)>>, <<Frac(4, 5), Frac(-3, 5)>> }

\* the rim point at the angle cs from the horizontal diameter, less disc_center
RimPoint(cs) ==
    VAdd(VScale(Normalize(TiltDir(disc_normal)), RMul(disc_radius, cs[1])),
         VScale(RimOffset, cs[2]))

\* C20: the contact point is the lowest point of the disc rim: for a unit disc
\* normal n passing the tilt guard, ptD - center is perpendicular to n, has
\* length radius and z component -radius*sqrt(nx^2 + ny^2) < 0, and no other
\* rim point is lower; it is the position a reported contact carries.
C20_LowestRimPoint ==
    op = "ContactQuery" /\ ~AlmostHorizontal(Length2(TiltDir(disc_normal))) =>
        /\ Vdot(RimOffset, disc_normal) = Q(0)
        /\ Length2(RimOffset) = RMul(disc_radius, disc_radius)
        /\ RLt(RimOffset[3], Q(0))
        /\ RMul(RimOffset[3], RimOffset[3])
              = RMul(RMul(disc_radius, disc_radius),
                     RAdd(RMul(disc_normal[1], disc_normal[1]),
                          RMul(disc_normal[2], disc_normal[2])))
        /\ \A cs \in RimAngles :
              /\ Vdot(RimPoint(cs), disc_normal) = Q(0)
              /\ Length2(RimPoint(cs)) = RMul(disc_radius, disc_radius)
              /\ RGeq(RimPoint(cs)[3], RimOffset[3])
        /\ res = "true" => contact.pos = VAdd(disc_center, RimOffset)

\* a contact reported for a disc tilted about the y axis, away from the origin
C20_Witness ==
    /\ op = "ContactQuery"
    /\ res = "true"
    /\ disc_normal = <<Frac(3, 5), Q(0), Frac(4, 5)>>
    /\ disc_center[1] # Q(0)
    /\ contact.pos[1] # disc_center[1]
    /\ RLt(contact.pos[3], disc_center[3])

\* the pose that only translates by v, and the pose that only rotates by q
PureTranslation(v) == ChCoordsys(v, QUNIT)

PureRotation(q) == ChCoordsys(VNULL, q)

\* C21: each mixed operator agrees with the composition of poses through the
\* embedded pure translation or pure rotation: v * F = F >> v = F >> Pose(v, 1)
\* = (F.pos + v, F.rot), and F >>= v gives the same; q * F = F >> q
\* = F >> Pose(0, q) = (q.Rotate(F.pos), q * F.rot), and F >>= q gives the
\* same; F * v = v >> F = F.TransformLocalToParent(v); F * q = q >> F
\* = orientation of F * Pose(0, q).
C21_MixedAgree ==
    [][ /\ op' = "MixedOps" =>
              /\ \A i \in 1..2 :
                    /\ res'.translated[i] = OpShr(csysA, PureTranslation(mvect1))
                    /\ res'.translated[i] = ChCoordsys(VAdd(csysA.pos, mvect1), csysA.rot)
                    /\ res'.rotated[i] = OpShr(csysA, PureRotation(csysB.rot))
                    /\ res'.rotated[i] = ChCoordsys(Rotate(csysB.rot, csysA.pos),
                                                    QMul(csysB.rot, csysA.rot))
                    /\ res'.points[i] = TransformLocalToParentV(csysA, mvect1)
                    /\ res'.quats[i] = OpMul(csysA, PureRotation(csysB.rot)).rot
        /\ op' = "ShrAssignVec" =>
              /\ csysA' = OpShr(csysA, PureTranslation(mvect1))
              /\ csysA' = OpVecMul(mvect1, csysA)
              /\ res' = csysA'
        /\ op' = "ShrAssignQuat" =>
              /\ csysA' = OpShr(csysA, PureRotation(csysB.rot))
              /\ csysA' = OpQuatMul(csysB.rot, csysA)
              /\ res' = csysA'
      ]_vars

\* the mixed operators have been applied to a pose that translates and
\* rotates, a vector that is not null and a quaternion that does not commute
\* with the orientation of the pose
C21_Witness ==
    /\ op = "MixedOps"
    /\ csysA.pos # VNULL
    /\ mvect1 # VNULL
    /\ QMul(csysA.rot, csysB.rot) # QMul(csysB.rot, csysA.rot)
    /\ res.rotated[1].pos # csysA.pos
    /\ res.quats[1] # res.rotated[1].rot

\* (e1,e2,e3) of a pose moved k places: one place gives (e3,e1,e2), two
\* places give (e2,e3,e1); pos and e0 kept
Permuted(cs, k) ==
    IF k = 1
    THEN ChCoordsys(cs.pos, <<cs.rot[1], cs.rot[4], cs.rot[2], cs.rot[3]>>)
    ELSE IF k = 2
         THEN ChCoordsys(cs.pos, <<cs.rot[1], cs.rot[3], cs.rot[4], cs.rot[2]>>)
         ELSE cs

\* the sum of the arguments of the calls, mod 3
RECURSIVE StepsMod3(_)
StepsMod3(ns) == IF ns = <<>> THEN 0 ELSE ((Head(ns) % 3) + StepsMod3(Tail(ns))) % 3

\* C22: Cycle(n) cyclically permutes (e1,e2,e3) by n mod 3 places for every
\* int n, negative included: Cycle(1) gives (e3,e1,e2), Cycle(2) gives
\* (e2,e3,e1), Cycle(-1) acts as Cycle(2), Cycle(a) then Cycle(b) is
\* Cycle(a+b), Cycle(n) then Cycle(-n) restores the pose, and pos and e0 are
\* never changed.
C22_CyclePermutes ==
    op = "Cycle" =>
        /\ csysA = Permuted(csysB, StepsMod3(res))
        /\ csysA.pos = csysB.pos
        /\ csysA.rot[1] = csysB.rot[1]
        /\ Len(res) = 2 /\ res[2] # IntMin /\ res[1] = -res[2] => csysA = csysB

\* C23: in-place concatenation is safe when the argument is the object
\* itself: A >>= A and A *= A both leave A = A_old * A_old, and A >>= A.rot
\* leaves A = A_old.rot * A_old = (rot.Rotate(pos), rot * rot): pos is written
\* from the rot not yet overwritten, and rot is written without reading pos.
C23_SelfAliasSafe ==
    [][ /\ op' \in {"ShrAssignSelf", "MulAssignSelf"} =>
              /\ csysA' = OpMul(csysA, csysA)
              /\ csysA'.pos = VAdd(csysA.pos, Rotate(csysA.rot, csysA.pos))
              /\ csysA'.rot = QMul(csysA.rot, csysA.rot)
        /\ op' = "ShrAssignQuatSelf" =>
              /\ csysA' = OpQuatMul(csysA.rot, csysA)
              /\ csysA'.pos = Rotate(csysA.rot, csysA.pos)
              /\ csysA'.rot = QMul(csysA.rot, csysA.rot)
      ]_vars

\* A >>= A.rot has been applied to a pose whose position its rotation moves
\* and moves again when applied twice
C23_Witness ==
    /\ op = "ShrAssignQuatSelf"
    /\ csysA.pos # VNULL
    /\ csysA.rot # QUNIT
    /\ \E A \in Poses :
          /\ csysA = OpQuatMul(A.rot, A)
          /\ csysA.pos # A.pos
          /\ csysA.pos # Rotate(QMul(A.rot, A.rot), A.pos)

====
